---- MODULE Spec2Model ----
(***************************************************************************)
(* Model of src/app/page.jsx, the TokenApprovalRevoker component: the      *)
(* component state (address, approvals, loading, isWalletConnected,        *)
(* currentChain), its three handlers (connectWallet, fetchApprovals,       *)
(* revokeApproval), the wallet check run on mount and the two provider     *)
(* listeners.  Every handler is cut at its awaits: one action per          *)
(* synchronous segment, run to the next await or to the handler's end.     *)
(* JavaScript strings are tuples of one-character strings.                 *)
(***************************************************************************)
EXTENDS Integers, Sequences, FiniteSets, Bags, TLC

VARIABLES
    hasProvider,        \* window.ethereum is present
    address,            \* useState('')     : the address input's text
    approvals,          \* useState([])     : the rendered approval records
    loading,            \* useState(false)
    isWalletConnected,  \* useState(false)
    currentChain,       \* useState(null)
    ops,                \* the bag of handler invocations suspended at an await
    alerts,             \* the alert() dialogs shown by the latest step, in order
    ended,              \* the invocation that ran to its end in the latest step
    approvalsFrom       \* history: which fetch wrote approvals last

vars == << hasProvider, address, approvals, loading, isWalletConnected,
           currentChain, ops, alerts, ended, approvalsFrom >>

----------------------------------------------------------------------------
(* Bounds of the model. *)

\* Handler invocations (clicks) that may be suspended at an await at once.
MaxInFlight == 2
\* Longest result array of an API response.
MaxTxs == 2
\* Largest allowance the token contract reports.
MaxAllowance == 2

----------------------------------------------------------------------------
(* Strings. *)

Rep(c, n) == [i \in 1..n |-> c]

\* A field the API response does not carry (JavaScript undefined).
Undefined == << "undefined" >>

UpperLetters == << "A", "B", "C", "D", "E", "F", "G", "H", "I", "J", "K", "L", "M",
                   "N", "O", "P", "Q", "R", "S", "T", "U", "V", "W", "X", "Y", "Z" >>
LowerLetters == << "a", "b", "c", "d", "e", "f", "g", "h", "i", "j", "k", "l", "m",
                   "n", "o", "p", "q", "r", "s", "t", "u", "v", "w", "x", "y", "z" >>

\* String.prototype.toLowerCase, one character.
LowerChar(c) ==
    IF \E k \in 1..Len(UpperLetters) : UpperLetters[k] = c
    THEN LowerLetters[CHOOSE k \in 1..Len(UpperLetters) : UpperLetters[k] = c]
    ELSE c

\* String.prototype.toLowerCase.
ToLowerCase(s) == [i \in 1..Len(s) |-> LowerChar(s[i])]

\* String.prototype.startsWith.
StartsWith(s, p) == Len(s) >= Len(p) /\ SubSeq(s, 1, Len(p)) = p

\* String.prototype.includes.
Includes(s, p) ==
    \E k \in 0..(Len(s) - Len(p)) : SubSeq(s, k + 1, k + Len(p)) = p

----------------------------------------------------------------------------
(* The address pattern /^0x[a-fA-F0-9]{40}$/ of fetchApprovals. *)

\* The repetition count of the character class.
AddrHexLen == 40

\* The character class [a-fA-F0-9].
HexClass == { "a", "b", "c", "d", "e", "f", "A", "B", "C", "D", "E", "F",
              "0", "1", "2", "3", "4", "5", "6", "7", "8", "9" }

\* [a-fA-F0-9]{n} matched at position pos: the position after the run, or 0
\* when the run does not match there.
RECURSIVE MatchHexRun(_, _, _)
MatchHexRun(s, pos, n) ==
    IF n = 0 THEN pos
    ELSE IF pos <= Len(s) /\ s[pos] \in HexClass
         THEN MatchHexRun(s, pos + 1, n - 1)
         ELSE 0

\* RegexTest with the $ anchor left out: a match may end before the input does.
RegexTestNoEndAnchor(s) ==
    /\ Len(s) >= 2
    /\ s[1] = "0"
    /\ s[2] = "x"
    /\ MatchHexRun(s, 3, AddrHexLen) # 0

\* /^0x[a-fA-F0-9]{40}$/.test(s): ^ pins the match to position 1, the two
\* literals follow, then the run, and $ (no m flag) is the end of the input.
RegexTest(s) ==
    /\ Len(s) >= 2
    /\ s[1] = "0"
    /\ s[2] = "x"
    /\ MatchHexRun(s, 3, AddrHexLen) = Len(s) + 1

\* The guard of fetchApprovals: !address || !regex.test(address) is false.
AddressAccepted(s) == s # << >> /\ RegexTest(s)

----------------------------------------------------------------------------
(* Addresses, transactions and API responses. *)

HexAddr(c) == << "0", "x" >> \o Rep(c, AddrHexLen)

\* The literal of line 96.
ZeroAddress == HexAddr("0")

AddrA      == HexAddr("a")
AddrAUpper == HexAddr("A")      \* the same account as AddrA, other case
AddrB      == HexAddr("b")
Spender    == HexAddr("5")
TokenC     == HexAddr("c")
Owner      == HexAddr("e")      \* the wallet's account

\* The selector literal of line 90.
ApproveSelector == << "0", "x", "0", "9", "5", "e", "a", "7", "b", "3" >>
OtherSelector   == << "0", "x", "a", "9", "0", "5", "9", "c", "b", "b" >>

ApproveWord == << "a", "p", "p", "r", "o", "v", "e" >>
FnApprove   == ApproveWord \o << "(", ")" >>
FnSafeApprove == << "s", "a", "f", "e", "A", "P", "P", "R", "O", "V", "E" >>
FnTransfer  == << "t", "r", "a", "n", "s", "f", "e", "r" >>
FnIncreaseApproval ==
    << "i", "n", "c", "r", "e", "a", "s", "e", "A", "p", "p", "r", "o", "v", "a", "l" >>

Tx(h, inp, fn, from, to, sym, tok) ==
    [ hash |-> << "h", h >>, input |-> inp, functionName |-> fn, from |-> from,
      to |-> to, tokenSymbol |-> sym, value |-> << "1", "0" >>,
      contractAddress |-> tok, timeStamp |-> << "1", "7" >> ]

SymDAI == << "D", "A", "I" >>

\* approve by selector and by name, to a foreign spender
TxApproveCall == Tx("1", ApproveSelector \o << "0", "0" >>, FnApprove, Owner, Spender, SymDAI, TokenC)
\* approve by name only (upper case in the name)
TxByName      == Tx("2", OtherSelector, FnSafeApprove, Owner, Spender, SymDAI, TokenC)
\* neither selector nor name, from the zero address
TxFromZero    == Tx("3", OtherSelector, FnTransfer, ZeroAddress, Spender, << >>, TokenC)
\* an ordinary transfer
TxTransfer    == Tx("4", OtherSelector, FnTransfer, Owner, Spender, SymDAI, TokenC)
\* an approve whose to-address is AddrA, written in upper case
TxToSelf      == Tx("5", ApproveSelector, FnApprove, ZeroAddress, AddrAUpper, SymDAI, TokenC)
\* every optional field missing, from the zero address
TxBare        == Tx("6", Undefined, Undefined, ZeroAddress, Undefined, Undefined, Undefined)
\* near misses: a cut selector, a name without "approve"
TxNearMiss    == Tx("7", SubSeq(ApproveSelector, 1, 8), FnIncreaseApproval, Owner, Spender, SymDAI, TokenC)

TxPool      == { TxApproveCall, TxByName, TxFromZero, TxTransfer, TxToSelf, TxBare, TxNearMiss }

RECURSIVE SeqsUpTo(_, _)
SeqsUpTo(S, n) ==
    IF n = 0 THEN { << >> }
    ELSE LET shorter == SeqsUpTo(S, n - 1)
         IN  shorter \cup { Append(q, x) : q \in shorter, x \in S }

\* response.data of a resolved axios.get: {status, message, result}.
ApiBody(st, msg, res) == [ status |-> st, message |-> msg, result |-> res ]

ErrorMessages == { "User rejected the request" }

\* Every response with a result of at most MaxTxs transactions of the pool.
Responses(pool) ==
    { ApiBody("1", "OK", r) : r \in SeqsUpTo(pool, MaxTxs) }
    \cup { ApiBody("0", m, << >>) : m \in { "NOTOK", "" } }

\* The responses of the models of the whole component.
ResponsesSmall ==
    { ApiBody("1", "OK", << >>),
      ApiBody("1", "OK", << TxApproveCall, TxBare >>),
      ApiBody("0", "NOTOK", << >>) }

----------------------------------------------------------------------------
(* The filter and the formatting of fetchApprovals (lines 88-112). *)

\* tx.input?.startsWith('0x095ea7b3')
IsApprovalCall(tx) == tx.input # Undefined /\ StartsWith(tx.input, ApproveSelector)

\* tx.functionName?.toLowerCase().includes('approve')
HasApproveInName(tx) ==
    tx.functionName # Undefined /\ Includes(ToLowerCase(tx.functionName), ApproveWord)

\* tx.from === '0x0000000000000000000000000000000000000000'
IsApprovalEvent(tx) == tx.from = ZeroAddress

\* IsNotSelfApproval comparing the two addresses as written.
IsNotSelfApprovalCaseSensitive(tx, addr) == tx.to # addr

\* tx.to?.toLowerCase() !== address.toLowerCase()
IsNotSelfApproval(tx, addr) ==
    (IF tx.to = Undefined THEN Undefined ELSE ToLowerCase(tx.to)) # ToLowerCase(addr)

\* The callback of result.filter.
FilterPredicate(tx, addr) ==
    (IsApprovalCall(tx) \/ HasApproveInName(tx) \/ IsApprovalEvent(tx))
    /\ IsNotSelfApproval(tx, addr)

\* Array.prototype.filter with the callback above.
RECURSIVE FilterTxs(_, _)
FilterTxs(result, addr) ==
    IF result = << >> THEN << >>
    ELSE LET rest == FilterTxs(Tail(result), addr)
         IN  IF FilterPredicate(Head(result), addr) THEN << Head(result) >> \o rest ELSE rest

UnknownSymbol == << "U", "n", "k", "n", "o", "w", "n" >>

\* The callback of approvalTxs.map.
FormatApproval(tx) ==
    [ tokenSymbol |-> IF tx.tokenSymbol = Undefined \/ tx.tokenSymbol = << >>
                      THEN UnknownSymbol ELSE tx.tokenSymbol,
      to |-> tx.to,
      value |-> tx.value,
      contractAddress |-> tx.contractAddress,
      txHash |-> tx.hash,
      timestamp |-> tx.timeStamp ]

FormatApprovals(txs) == [ i \in 1..Len(txs) |-> FormatApproval(txs[i]) ]

----------------------------------------------------------------------------
(* Inputs of the environment. *)

\* What the user types in the models of the whole component.
AddressInputs == { << >>, AddrA }

\* What the user types in the model of the address check.
ValidationInputs ==
    { << >>,                                            \* empty
      AddrA, AddrAUpper, ZeroAddress,                   \* well formed
      << "0", "x" >> \o Rep("9", AddrHexLen - 1) \o << "F" >>,
      << "0", "x" >> \o Rep("a", AddrHexLen - 1),       \* one digit short
      << "0", "x" >> \o Rep("a", AddrHexLen + 1),       \* one digit long
      << "0", "X" >> \o Rep("a", AddrHexLen),           \* capital X
      Rep("a", AddrHexLen),                             \* no prefix
      Rep("a", AddrHexLen + 2),                         \* no prefix, 42 long
      << "0", "x" >> \o Rep("a", AddrHexLen - 1) \o << "g" >>,  \* not a hex digit
      << " " >> \o AddrA,                               \* text before
      AddrA \o << "\n" >>,                              \* text after
      << "0", "x" >> }                                  \* the prefix alone

\* What the user types in the model of the filter.
FilterInputs == { << >>, AddrA, AddrB }

\* What eth_accounts, eth_requestAccounts and accountsChanged deliver.
AccountLists == { << >>, << Owner >> }

\* What eth_chainId and chainChanged deliver.
ChainIds == { "0x1" }

\* What allowance(owner, spender) returns.
Allowances == 0..MaxAllowance

----------------------------------------------------------------------------
(* Records of the model. *)

NoApproval ==
    [ tokenSymbol |-> << >>, to |-> << >>, value |-> << >>,
      contractAddress |-> << >>, txHash |-> << >>, timestamp |-> << >> ]

\* A handler invocation suspended at an await: the requests it waits for, what
\* its closure captured (addr: the address state) and, as history, the steps it
\* has taken so far, the input's text when a fetch started (typed) and whether
\* a fetch is the most recently started one (latest).
Op(kind, awaiting, addr, typed, approval, trace) ==
    [ kind |-> kind, awaiting |-> awaiting, addr |-> addr, typed |-> typed,
      approval |-> approval, trace |-> trace, latest |-> FALSE ]

NoEnded ==
    [ kind |-> "none", outcome |-> "", error |-> "", addr |-> << >>,
      result |-> << >>, approval |-> NoApproval, trace |-> << >> ]

\* An invocation that ran to its end: outcome "ok", "failed" (an error was
\* thrown; error is its message) or "rejected" (the address check returned).
Ended(kind, outcome, error, addr, result, approval, trace) ==
    [ kind |-> kind, outcome |-> outcome, error |-> error, addr |-> addr,
      result |-> result, approval |-> approval, trace |-> trace ]

Alert(prefix, msg) == [ prefix |-> prefix, msg |-> msg ]

\* The bag b without one copy of o, and with one copy of o replaced by o2.
Without(b, o) == b (-) SetToBag({ o })
Replaced(b, o, o2) == Without(b, o) (+) SetToBag({ o2 })

\* One request of an invocation settled and the next one issued.
Advance(op, done, next, step) ==
    [ op EXCEPT !.awaiting = (@ \ { done }) \cup next, !.trace = Append(@, step) ]

InFlight == BagToSet(ops)

Waits(o, kind, request) ==
    /\ o \in InFlight
    /\ o.kind = kind
    /\ request \in o.awaiting

Copies(b, kind) ==
    BagCardinality([ o \in { x \in BagToSet(b) : x.kind = kind } |-> CopiesIn(o, b) ])

InFlightClicks == BagCardinality(ops) - Copies(ops, "mount")
CanStart == InFlightClicks < MaxInFlight

\* The bag b with no fetch marked as the most recently started one.
Unmarked(b) ==
    LET plain(o) == [o EXCEPT !.latest = FALSE]
        marked(o) == [o EXCEPT !.latest = TRUE]
    IN  [ o \in { plain(x) : x \in BagToSet(b) } |->
            CopiesIn(o, b) + CopiesIn(marked(o), b) ]

----------------------------------------------------------------------------
(* What the render enables (lines 164-255). *)

ConnectButtonShown == ~isWalletConnected                     \* line 175
CheckButtonEnabled == ~loading                               \* line 203
ListShown          == ~loading /\ Len(approvals) > 0         \* lines 212-216
RevokeButtonEnabled == isWalletConnected                     \* line 234

----------------------------------------------------------------------------
(* Mount: the effect of lines 14-49. *)

\* checkWalletConnection up to its first await.
MountOps(provider) ==
    IF provider
    THEN SetToBag({ Op("mount", { "eth_accounts" }, << >>, << >>, NoApproval, << >>) })
    ELSE EmptyBag

Init ==
    /\ hasProvider \in BOOLEAN
    /\ address = << >>
    /\ approvals = << >>
    /\ loading = FALSE
    /\ isWalletConnected = FALSE
    /\ currentChain = "null"
    /\ ops = MountOps(hasProvider)
    /\ alerts = << >>
    /\ ended = NoEnded
    /\ approvalsFrom = "none"

\* The catch of checkWalletConnection: console.error only.
MountCatch(msg) == << >>

MountAccountsOk(o, accounts) ==
    /\ Waits(o, "mount", "eth_accounts")
    /\ isWalletConnected' = (Len(accounts) > 0)
    /\ ops' = Replaced(ops, o, Advance(o, "eth_accounts", { "eth_chainId" }, "setIsWalletConnected"))
    /\ alerts' = << >>
    /\ ended' = NoEnded
    /\ UNCHANGED << hasProvider, address, approvals, loading, currentChain,
                    approvalsFrom >>

MountChainOk(o, chainId) ==
    /\ Waits(o, "mount", "eth_chainId")
    /\ currentChain' = chainId
    /\ ops' = Without(ops, o)
    /\ alerts' = << >>
    /\ ended' = Ended("mount", "ok", "", << >>, << >>, NoApproval,
                      Append(o.trace, "setCurrentChain"))
    /\ UNCHANGED << hasProvider, address, approvals, loading, isWalletConnected,
                    approvalsFrom >>

MountFail(o, msg) ==
    /\ o \in InFlight
    /\ o.kind = "mount"
    /\ ops' = Without(ops, o)
    /\ alerts' = MountCatch(msg)
    /\ ended' = Ended("mount", "failed", msg, << >>, << >>, NoApproval, o.trace)
    /\ UNCHANGED << hasProvider, address, approvals, loading, isWalletConnected,
                    currentChain, approvalsFrom >>

----------------------------------------------------------------------------
(* The provider listeners (lines 33-40). *)

AccountsChanged(accounts) ==
    /\ hasProvider
    /\ isWalletConnected' = (Len(accounts) > 0)
    /\ alerts' = << >>
    /\ ended' = NoEnded
    /\ UNCHANGED << hasProvider, address, approvals, loading, currentChain, ops,
                    approvalsFrom >>

\* setCurrentChain, then window.location.reload(): the page is mounted anew and
\* the invocations of the old page never resume.
ChainChanged(chainId) ==
    /\ hasProvider
    /\ address' = << >>
    /\ approvals' = << >>
    /\ loading' = FALSE
    /\ isWalletConnected' = FALSE
    /\ currentChain' = "null"
    /\ ops' = MountOps(hasProvider)
    /\ alerts' = << >>
    /\ ended' = NoEnded
    /\ approvalsFrom' = "none"
    /\ UNCHANGED hasProvider

----------------------------------------------------------------------------
(* The address input (line 197). *)

SetAddress(a) ==
    /\ a # address
    /\ address' = a
    /\ alerts' = << >>
    /\ ended' = NoEnded
    /\ UNCHANGED << hasProvider, approvals, loading, isWalletConnected, currentChain,
                    ops, approvalsFrom >>

----------------------------------------------------------------------------
(* connectWallet (lines 51-67). *)

\* The catch of connectWallet without its alert: console.error only.
ConnectCatchSilent(msg) == << >>

\* The catch of connectWallet.
ConnectCatch(msg) == << Alert("Wallet connection failed: ", msg) >>

ConnectOp(requests) == Op("connect", requests, << >>, << >>, NoApproval, << >>)

\* connectWallet issuing both provider requests at once.
ConnectRequestsAtOnce == { "eth_requestAccounts", "eth_chainId" }

\* The request connectWallet issues before its first await.
ConnectFirstRequests == { "eth_requestAccounts" }

ConnectWalletClick ==
    /\ ConnectButtonShown
    /\ IF ~hasProvider
       THEN /\ ops' = ops
            /\ alerts' = ConnectCatch("MetaMask not installed")
            /\ ended' = Ended("connect", "failed", "MetaMask not installed",
                              << >>, << >>, NoApproval, << >>)
       ELSE /\ CanStart
            /\ ops' = ops (+) SetToBag({ ConnectOp(ConnectFirstRequests) })
            /\ alerts' = << >>
            /\ ended' = NoEnded
    /\ UNCHANGED << hasProvider, address, approvals, loading, isWalletConnected,
                    currentChain, approvalsFrom >>

ConnectAccountsOk(o, accounts) ==
    /\ Waits(o, "connect", "eth_requestAccounts")
    /\ isWalletConnected' = (Len(accounts) > 0)
    /\ ops' = Replaced(ops, o, Advance(o, "eth_requestAccounts", { "eth_chainId" },
                         "setIsWalletConnected"))
    /\ alerts' = << >>
    /\ ended' = NoEnded
    /\ UNCHANGED << hasProvider, address, approvals, loading, currentChain,
                    approvalsFrom >>

ConnectChainOk(o, chainId) ==
    /\ Waits(o, "connect", "eth_chainId")
    /\ currentChain' = chainId
    /\ ops' = Without(ops, o)
    /\ alerts' = << >>
    /\ ended' = Ended("connect", "ok", "", << >>, << >>, NoApproval,
                      Append(o.trace, "setCurrentChain"))
    /\ UNCHANGED << hasProvider, address, approvals, loading, isWalletConnected,
                    approvalsFrom >>

\* The catch of connectWallet also resetting the chain: setCurrentChain(null).
ConnectFailResettingChain(o, msg) ==
    /\ o \in InFlight
    /\ o.kind = "connect"
    /\ currentChain' = "null"
    /\ ops' = Without(ops, o)
    /\ alerts' = ConnectCatch(msg)
    /\ ended' = Ended("connect", "failed", msg, << >>, << >>, NoApproval,
                      Append(o.trace, "setCurrentChain"))
    /\ UNCHANGED << hasProvider, address, approvals, loading, isWalletConnected,
                    approvalsFrom >>

\* Either provider request rejected.
ConnectFail(o, msg) ==
    /\ o \in InFlight
    /\ o.kind = "connect"
    /\ ops' = Without(ops, o)
    /\ alerts' = ConnectCatch(msg)
    /\ ended' = Ended("connect", "failed", msg, << >>, << >>, NoApproval, o.trace)
    /\ UNCHANGED << hasProvider, address, approvals, loading, isWalletConnected,
                    currentChain, approvalsFrom >>

----------------------------------------------------------------------------
(* fetchApprovals (lines 69-122). *)

InvalidAddressAlert == Alert("Please enter a valid Ethereum address (0x...)", "")

FetchOp(addr, typed) ==
    Op("fetch", { "GET" }, addr, typed, NoApproval, << "setLoading", "setApprovals" >>)

\* The catch of fetchApprovals.
FetchCatch(msg) == << Alert("Error: ", msg) >>

\* A call of fetchApprovals up to its await, by a closure that captured addr.
\* base: the invocations in flight; shown: the alerts of this step so far.
FetchApprovalsCall(addr, base, shown) ==
    IF ~AddressAccepted(addr)
    THEN /\ alerts' = Append(shown, InvalidAddressAlert)
         /\ ops' = base
         /\ UNCHANGED << loading, approvals, approvalsFrom >>
    ELSE /\ loading' = TRUE
         /\ approvals' = << >>
         /\ ops' = Unmarked(base) (+) SetToBag({ [FetchOp(addr, address) EXCEPT !.latest = TRUE] })
         /\ alerts' = shown
         /\ approvalsFrom' = "latest"

CheckApprovalsClick ==
    /\ CheckButtonEnabled
    /\ AddressAccepted(address) => CanStart
    /\ FetchApprovalsCall(address, ops, << >>)
    /\ ended' = IF AddressAccepted(address) THEN NoEnded
                ELSE Ended("fetch", "rejected", "", address, << >>, NoApproval, << >>)
    /\ UNCHANGED << hasProvider, address, isWalletConnected, currentChain >>

\* response.data.message || "Etherscan API error"
ApiErrorMessage(resp) == IF resp.message = "" THEN "Etherscan API error" ELSE resp.message

\* axios.get resolved: lines 83-114, then the finally.
FetchResolve(o, resp) ==
    /\ Waits(o, "fetch", "GET")
    /\ IF resp.status # "1"
       THEN /\ alerts' = FetchCatch(ApiErrorMessage(resp))
            /\ ended' = Ended("fetch", "failed", ApiErrorMessage(resp), o.addr,
                              << >>, NoApproval, Append(o.trace, "setLoading"))
            /\ UNCHANGED << approvals, approvalsFrom >>
       ELSE /\ approvals' = FormatApprovals(FilterTxs(resp.result, o.addr))
            /\ approvalsFrom' = IF o.latest THEN "latest" ELSE "earlier"
            /\ alerts' = << >>
            /\ ended' = Ended("fetch", "ok", "", o.addr, resp.result, NoApproval,
                              o.trace \o << "setApprovals", "setLoading" >>)
    /\ loading' = FALSE
    /\ ops' = Without(ops, o)
    /\ UNCHANGED << hasProvider, address, isWalletConnected, currentChain >>

\* axios.get rejected: the catch, then the finally.
FetchReject(o, msg) ==
    /\ Waits(o, "fetch", "GET")
    /\ alerts' = FetchCatch(msg)
    /\ ended' = Ended("fetch", "failed", msg, o.addr, << >>, NoApproval,
                      Append(o.trace, "setLoading"))
    /\ loading' = FALSE
    /\ ops' = Without(ops, o)
    /\ UNCHANGED << hasProvider, address, approvals, isWalletConnected, currentChain,
                    approvalsFrom >>

----------------------------------------------------------------------------
(* revokeApproval (lines 124-162). *)

\* The catch of revokeApproval.
RevokeCatch(msg) == << Alert("Revoke failed: ", msg) >>

SuccessAlert == Alert("Success! Approval revoked in transaction: ", "0xhash")

\* The guards of lines 126-127 checking the provider only.
RevokeGuardErrorProviderOnly(provider, connected) ==
    IF ~provider THEN "MetaMask not installed" ELSE ""

\* The guards of lines 126-127: the message thrown, "" when both pass.
\* connected is the isWalletConnected the handler's closure captured.
RevokeGuardError(provider, connected) ==
    IF ~provider THEN "MetaMask not installed"
    ELSE IF ~connected THEN "Please connect your wallet first"
    ELSE ""

\* new ethers.Contract(approval.contractAddress, ...): the message thrown for
\* an address that is undefined, "" otherwise.
ContractError(approval) ==
    IF approval.contractAddress = Undefined
    THEN "invalid contract address or ENS name"
    ELSE ""

RevokeOp(approval, addr) ==
    Op("revoke", { "getAddress" }, addr, << >>, approval, << "guards" >>)

\* revokeApproval(approvals[n]) up to its first await (signer.getAddress()).
\* byButton: the call comes from a click on the entry's button, which the
\* render disables while the wallet is not connected.
RevokeInvoke(n, byButton) ==
    /\ ListShown
    /\ n \in DOMAIN approvals
    /\ byButton => RevokeButtonEnabled
    /\ LET approval == approvals[n]
           guard == RevokeGuardError(hasProvider, isWalletConnected)
           error == IF guard # "" THEN guard ELSE ContractError(approval)
       IN  IF error # ""
           THEN /\ ops' = ops
                /\ alerts' = RevokeCatch(error)
                /\ ended' = Ended("revoke", "failed", error, address, << >>,
                                  approval, << >>)
           ELSE /\ CanStart
                /\ ops' = ops (+) SetToBag({ RevokeOp(approval, address) })
                /\ alerts' = << >>
                /\ ended' = NoEnded
    /\ UNCHANGED << hasProvider, address, approvals, loading, isWalletConnected,
                    currentChain, approvalsFrom >>

\* signer.getAddress() resolved: allowance(owner, approval.to) is called; what
\* it returns is the environment's choice, whatever the owner.
RevokeGetAddressOk(o, owner) ==
    /\ Waits(o, "revoke", "getAddress")
    /\ ops' = Replaced(ops, o, Advance(o, "getAddress", { "allowance" }, "getAddress"))
    /\ alerts' = << >>
    /\ ended' = NoEnded
    /\ UNCHANGED << hasProvider, address, approvals, loading, isWalletConnected,
                    currentChain, approvalsFrom >>

\* The allowance read resolved and the zero check left out.
RevokeAllowanceOkUnchecked(o, allowance) ==
    /\ Waits(o, "revoke", "allowance")
    /\ ops' = Replaced(ops, o, Advance(o, "allowance", { "approve" },
                         IF allowance = 0 THEN "allowanceZero" ELSE "allowanceNonzero"))
    /\ alerts' = << >>
    /\ ended' = NoEnded
    /\ UNCHANGED << hasProvider, address, approvals, loading, isWalletConnected,
                    currentChain, approvalsFrom >>

\* The allowance read resolved: lines 147-152, up to the await of approve.
RevokeAllowanceOk(o, allowance) ==
    /\ Waits(o, "revoke", "allowance")
    /\ IF allowance = 0
       THEN /\ ops' = Without(ops, o)
            /\ alerts' = RevokeCatch("No active approval found")
            /\ ended' = Ended("revoke", "failed", "No active approval found",
                              o.addr, << >>, o.approval,
                              Append(o.trace, "allowanceZero"))
       ELSE /\ ops' = Replaced(ops, o, Advance(o, "allowance", { "approve" }, "allowanceNonzero"))
            /\ alerts' = << >>
            /\ ended' = NoEnded
    /\ UNCHANGED << hasProvider, address, approvals, loading, isWalletConnected,
                    currentChain, approvalsFrom >>

\* The transaction was submitted: tx.wait() is awaited next.
RevokeApproveOk(o) ==
    /\ Waits(o, "revoke", "approve")
    /\ ops' = Replaced(ops, o, Advance(o, "approve", { "wait" }, "approve"))
    /\ alerts' = << >>
    /\ ended' = NoEnded
    /\ UNCHANGED << hasProvider, address, approvals, loading, isWalletConnected,
                    currentChain, approvalsFrom >>

\* The transaction was confirmed: the success alert, then fetchApprovals() of
\* the render the handler was created in (not awaited).
RevokeWaitOk(o) ==
    /\ Waits(o, "revoke", "wait")
    /\ FetchApprovalsCall(o.addr, Without(ops, o), << SuccessAlert >>)
    /\ ended' = Ended("revoke", "ok", "", o.addr, << >>, o.approval,
                      o.trace \o << "wait", "alertSuccess", "fetchApprovals" >>)
    /\ UNCHANGED << hasProvider, address, isWalletConnected, currentChain >>

\* Any awaited call of revokeApproval rejected: getAddress, allowance, approve
\* (the user refused, or the node did) or wait (the transaction reverted).
RevokeFail(o, msg) ==
    /\ o \in InFlight
    /\ o.kind = "revoke"
    /\ ops' = Without(ops, o)
    /\ alerts' = RevokeCatch(msg)
    /\ ended' = Ended("revoke", "failed", msg, o.addr, << >>, o.approval,
                      o.trace)
    /\ UNCHANGED << hasProvider, address, approvals, loading, isWalletConnected,
                    currentChain, approvalsFrom >>

----------------------------------------------------------------------------
(* Specifications. *)

\* Provider requests and contract calls settling, and the provider's events.
WalletSteps ==
    \/ \E o \in InFlight, a \in AccountLists : MountAccountsOk(o, a)
    \/ \E o \in InFlight, c \in ChainIds : MountChainOk(o, c)
    \/ \E o \in InFlight, m \in ErrorMessages : MountFail(o, m)
    \/ \E a \in AccountLists : AccountsChanged(a)
    \/ \E c \in ChainIds : ChainChanged(c)
    \/ ConnectWalletClick
    \/ \E o \in InFlight, a \in AccountLists : ConnectAccountsOk(o, a)
    \/ \E o \in InFlight, c \in ChainIds : ConnectChainOk(o, c)
    \/ \E o \in InFlight, m \in ErrorMessages : ConnectFail(o, m)
    \/ \E o \in InFlight : RevokeGetAddressOk(o, Owner)
    \/ \E o \in InFlight, v \in Allowances : RevokeAllowanceOk(o, v)
    \/ \E o \in InFlight : RevokeApproveOk(o)
    \/ \E o \in InFlight : RevokeWaitOk(o)
    \/ \E o \in InFlight, m \in ErrorMessages : RevokeFail(o, m)

FetchSteps(inputs, responses) ==
    \/ \E a \in inputs : SetAddress(a)
    \/ CheckApprovalsClick
    \/ \E o \in InFlight, r \in responses : FetchResolve(o, r)
    \/ \E o \in InFlight : FetchReject(o, "Network Error")

\* The component as the page runs it.
Next ==
    \/ WalletSteps
    \/ FetchSteps(AddressInputs, ResponsesSmall)
    \/ \E n \in DOMAIN approvals : RevokeInvoke(n, TRUE)

Spec == Init /\ [][Next]_vars

\* The component with revokeApproval called on a listed entry whatever the
\* button's disabled attribute says.
NextDirect ==
    \/ WalletSteps
    \/ FetchSteps(AddressInputs, ResponsesSmall)
    \/ \E n \in DOMAIN approvals : RevokeInvoke(n, FALSE)

SpecDirect == Init /\ [][NextDirect]_vars

\* The address input and fetchApprovals alone, over the inputs of the address check.
NextValidate == FetchSteps(ValidationInputs, ResponsesSmall)

SpecValidate == Init /\ [][NextValidate]_vars

\* The address input and fetchApprovals alone, over the responses of the pool.
NextFilter == FetchSteps(FilterInputs, Responses(TxPool))

SpecFilter == Init /\ [][NextFilter]_vars

----------------------------------------------------------------------------
(* Properties. *)

Last(q) == q[Len(q)]
Has(q, x) == \E k \in DOMAIN q : q[k] = x
Count(q, x) == Cardinality({ k \in DOMAIN q : q[k] = x })

\* "0x" followed by exactly 40 hex digits, nothing before or after.
IsHexAddress(s) ==
    /\ Len(s) = 42
    /\ SubSeq(s, 1, 2) = << "0", "x" >>
    /\ \A k \in 3..42 : s[k] \in HexClass

FetchesInFlight(b) == Copies(b, "fetch")

\* C1: fetchApprovals accepts the address input exactly when it is "0x" and 40
\* hex digits.  A step that starts a fetch starts exactly one GET, for the
\* address in the input, and that address matches; a step in which the guard
\* returns shows the invalid-address alert for an address that does not match
\* and leaves loading, approvals and the requests in flight as they were; and
\* no step starts a request while the input does not match.
C1_AddressValidation ==
    [][ /\ FetchesInFlight(ops') > FetchesInFlight(ops)
           => /\ IsHexAddress(address)
              /\ \E o \in BagToSet(ops') :
                   /\ o.kind = "fetch" /\ o.addr = address /\ o.awaiting = { "GET" }
                   /\ ops' = Unmarked(ops) (+) SetToBag({ o })
              /\ alerts' = << >>
        /\ (ended'.kind = "fetch" /\ ended'.outcome = "rejected")
           => /\ ~IsHexAddress(address)
              /\ ended'.addr = address
              /\ alerts' = << InvalidAddressAlert >>
              /\ UNCHANGED << loading, approvals, ops >>
        /\ ~IsHexAddress(address) => FetchesInFlight(ops') <= FetchesInFlight(ops)
      ]_vars

\* The guard has just turned down a well-formed address followed by a newline.
C1_Witness ==
    /\ ended.kind = "fetch"
    /\ ended.outcome = "rejected"
    /\ ended.addr = AddrA \o << "\n" >>
    /\ alerts = << InvalidAddressAlert >>
    /\ ~loading

\* The claim's condition on a transaction tx of the result, for the queried address q.
Listed(tx, q) ==
    /\ \/ (tx.input # Undefined /\ Len(tx.input) >= 10 /\ SubSeq(tx.input, 1, 10) = ApproveSelector)
       \/ (tx.functionName # Undefined
           /\ \E k \in 1..Len(tx.functionName) :
                 /\ k + 6 <= Len(tx.functionName)
                 /\ ToLowerCase(SubSeq(tx.functionName, k, k + 6)) = ApproveWord)
       \/ tx.from = ZeroAddress
    /\ (tx.to = Undefined \/ ToLowerCase(tx.to) # ToLowerCase(q))

\* The approval record rec is the record of the transaction tx.
RecordOf(rec, tx) ==
    /\ rec.txHash = tx.hash
    /\ rec.to = tx.to
    /\ rec.value = tx.value
    /\ rec.contractAddress = tx.contractAddress
    /\ rec.timestamp = tx.timeStamp
    /\ rec.tokenSymbol = IF tx.tokenSymbol \in { Undefined, << >> }
                         THEN UnknownSymbol ELSE tx.tokenSymbol

\* list holds the records of exactly the listed transactions of result, in order.
HoldsListed(list, result, q) ==
    LET kept == { k \in DOMAIN result : Listed(result[k], q) }
    IN  /\ Len(list) = Cardinality(kept)
        /\ \E f \in [DOMAIN list -> kept] :
             /\ \A j, k \in DOMAIN list : j < k => f[j] < f[k]
             /\ \A j \in DOMAIN list : RecordOf(list[j], result[f[j]])

\* C2: right after a fetch whose response has status "1", approvals holds the
\* records of exactly the result transactions that meet one of the three
\* conditions and whose to-address differs, case-insensitively, from the
\* queried address, in the order of the result.
C2_ApprovalFilter ==
    (ended.kind = "fetch" /\ ended.outcome = "ok")
    => HoldsListed(approvals, ended.result, ended.addr)

\* A fetch for AddrA returned an approve to AddrA (in upper case) and an
\* approve by name to a spender: only the second is listed.
C2_Witness ==
    /\ ended.kind = "fetch"
    /\ ended.outcome = "ok"
    /\ ended.addr = AddrA
    /\ ended.result = << TxToSelf, TxByName >>
    /\ Len(approvals) = 1
    /\ approvals[1].txHash = TxByName.hash

RevokesInFlight(b) == Copies(b, "revoke")

\* C3: a revokeApproval called while isWalletConnected is false, or while there
\* is no provider, starts nothing (no invocation reaches getAddress, so none of
\* these reads the allowance or submits approve), and it ends within the call
\* by the "Revoke failed" alert with approvals, loading, the wallet flags and
\* the invocations in flight unchanged.
C3_RevokeBlocked ==
    [][ (~isWalletConnected \/ ~hasProvider)
        => /\ RevokesInFlight(ops') <= RevokesInFlight(ops)
           /\ (ended'.kind = "revoke" /\ ended'.trace = << >>)
              => /\ alerts' = << Alert("Revoke failed: ", ended'.error) >>
                 /\ UNCHANGED << approvals, loading, isWalletConnected,
                                 currentChain, ops >>
      ]_vars

\* revokeApproval was called with a provider and the wallet not connected.
C3_Witness ==
    /\ hasProvider
    /\ ~isWalletConnected
    /\ ended.kind = "revoke"
    /\ ended.trace = << >>
    /\ ended.error = "Please connect your wallet first"
    /\ alerts = << Alert("Revoke failed: ", "Please connect your wallet first") >>

\* C4 as claimed: at most one asynchronous operation is in flight.
C4_NoOverlap_Claimed ==
    BagCardinality([ o \in InFlight |-> CopiesIn(o, ops) * Cardinality(o.awaiting) ]) <= 1

\* C4, amended: every invocation in flight waits for exactly one asynchronous
\* operation (the awaits of one handler are sequential); invocations may be in
\* flight together.
C4_OneAwaitPerInvocation ==
    \A o \in InFlight : Cardinality(o.awaiting) = 1

\* A connectWallet and a fetch are in flight together.
C4_Witness ==
    /\ \E o \in InFlight : o.kind = "connect" /\ o.awaiting = { "eth_requestAccounts" }
    /\ \E o \in InFlight : o.kind = "fetch"

\* The steps of one revokeApproval are in the order of the claim.
RevokeOrder(t) ==
    /\ Count(t, "approve") <= 1
    /\ Count(t, "allowanceZero") + Count(t, "allowanceNonzero") <= 1
    /\ \A k \in DOMAIN t :
         /\ t[k] = "approve" => k > 1 /\ t[k - 1] = "allowanceNonzero"
         /\ t[k] = "wait" => k > 1 /\ t[k - 1] = "approve"
         /\ t[k] = "alertSuccess" => k > 1 /\ t[k - 1] = "wait"
         /\ t[k] = "fetchApprovals" => k > 1 /\ t[k - 1] = "alertSuccess"
         /\ t[k] = "allowanceZero" => k = Len(t)

\* C5: in one revokeApproval the allowance is read first; approve is submitted
\* if and only if the allowance read is nonzero, and at most once; the success
\* alert and the refresh come only after the confirmation wait; a zero
\* allowance ends the invocation by the "No active approval found" alert with
\* no transaction and no refresh.
C5_RevokeOrder ==
    /\ \A o \in InFlight :
         o.kind = "revoke"
         => /\ RevokeOrder(o.trace)
            /\ ("approve" \in o.awaiting) <=> (Last(o.trace) = "allowanceNonzero")
            /\ ("wait" \in o.awaiting) <=> (Last(o.trace) = "approve")
    /\ ended.kind = "revoke"
       => /\ RevokeOrder(ended.trace)
          /\ Has(ended.trace, "allowanceZero")
             => /\ ended.outcome = "failed"
                /\ alerts = << Alert("Revoke failed: ", "No active approval found") >>
                /\ ~Has(ended.trace, "approve")
                /\ ~Has(ended.trace, "fetchApprovals")
          /\ ended.outcome = "ok"
             => /\ ended.trace = << "guards", "getAddress", "allowanceNonzero", "approve",
                                    "wait", "alertSuccess", "fetchApprovals" >>
                /\ alerts # << >>
                /\ alerts[1] = SuccessAlert
          /\ ended.outcome = "failed" => SuccessAlert \notin { alerts[k] : k \in DOMAIN alerts }

\* A revoke ran to its success alert and refreshed the list.
C5_Witness ==
    /\ ended.kind = "revoke"
    /\ ended.outcome = "ok"
    /\ Has(ended.trace, "allowanceNonzero")
    /\ alerts = << SuccessAlert >>
    /\ loading

\* C6 as claimed: every invocation that fails shows an alert with the error's message.
C6_AlertOnFailure_Claimed ==
    ended.outcome = "failed" => \E k \in DOMAIN alerts : alerts[k].msg = ended.error

AlertPrefix(kind) ==
    CASE kind = "connect" -> "Wallet connection failed: "
      [] kind = "fetch"   -> "Error: "
      [] kind = "revoke"  -> "Revoke failed: "
      [] OTHER            -> ""

\* C6, amended: every failure of connectWallet, fetchApprovals and
\* revokeApproval ends in one alert carrying the error's message; a failure of
\* the wallet check on mount shows no alert.
C6_AlertOnFailure ==
    ended.outcome = "failed"
    => IF ended.kind = "mount"
       THEN alerts = << >>
       ELSE alerts = << Alert(AlertPrefix(ended.kind), ended.error) >>

\* connectWallet failed at a rejected provider request and showed its alert.
C6_Witness ==
    /\ ended.kind = "connect"
    /\ ended.outcome = "failed"
    /\ ended.error = "User rejected the request"
    /\ alerts = << Alert("Wallet connection failed: ", "User rejected the request") >>

ApprovesInFlight(b) ==
    BagCardinality([ o \in { x \in BagToSet(b) : "approve" \in x.awaiting } |-> CopiesIn(o, b) ])

\* C7 as claimed: a step that submits approve(spender, 0) is taken only while
\* isWalletConnected is true.
C7_ApproveOnlyConnected_Claimed ==
    [][ ApprovesInFlight(ops') > ApprovesInFlight(ops) => isWalletConnected ]_vars

\* C8 as claimed: loading is true exactly while a fetch is in flight.
C8_LoadingTracksFetches_Claimed ==
    loading <=> (FetchesInFlight(ops) > 0)

\* C9 as claimed: with no fetch in flight approvals is what the most recently
\* started fetch left, and every fetch queries the address that was in the
\* input when it started.
C9_ListOfLatestFetch_Claimed ==
    /\ FetchesInFlight(ops) = 0 => approvalsFrom # "earlier"
    /\ \A o \in InFlight : o.kind = "fetch" => o.addr = o.typed

\* C10 as claimed: a connectWallet that ends in its failure alert has written
\* neither isWalletConnected nor currentChain.
C10_FailedConnectWritesNothing_Claimed ==
    (ended.kind = "connect" /\ ended.outcome = "failed") => ended.trace = << >>

\* C10, amended: a connectWallet that ends in its failure alert has never
\* written currentChain, writes nothing in the step that fails, and has written
\* isWalletConnected only when eth_requestAccounts had resolved before (the
\* failure is that of eth_chainId); an invocation that writes currentChain
\* ends without a failure alert.
C10_FailedConnectWrites ==
    [][ /\ (ended'.kind = "connect" /\ ended'.outcome = "failed")
           => /\ UNCHANGED << isWalletConnected, currentChain >>
              /\ ended'.trace \in { << >>, << "setIsWalletConnected" >> }
              /\ alerts' = << Alert("Wallet connection failed: ", ended'.error) >>
        /\ (ended'.kind = "connect" /\ Has(ended'.trace, "setCurrentChain"))
           => /\ ended'.outcome = "ok"
              /\ alerts' = << >>
      ]_vars

\* connectWallet failed at eth_chainId, after it had set isWalletConnected.
C10_Witness ==
    /\ ended.kind = "connect"
    /\ ended.outcome = "failed"
    /\ ended.trace = << "setIsWalletConnected" >>
    /\ isWalletConnected

====
